---- MODULE Spec2Model ----
(***************************************************************************)
(* The agent loop of the Figure browser extension (background.js), as a    *)
(* state machine.  background.js is single-threaded: the code between two  *)
(* awaits runs to completion, so every action below is one such segment,   *)
(* started by a message from the popup or by the settlement of the promise *)
(* a runAgent invocation is waiting on.                                    *)
(*                                                                         *)
(* Log lines are modelled by their text without the "[time] " prefix, and  *)
(* with interpolated values (error messages, action types, plans) dropped. *)
(*                                                                         *)
(* Spec is the background with the page as its environment: a round-trip  *)
(* to the tab ends with any answer of the page, with a transport error or  *)
(* with the timeout of sendToTab, and an answer may arrive after that.     *)
(* In one of its environments the commands are the clicks in an open popup *)
(* (popup.js), which the pushed status events reach one by one.  PageSpec  *)
(* is content.js in a tab: the perception and the execution of an action   *)
(* on a document, as functions of the document and the message.            *)
(***************************************************************************)
EXTENDS Integers, Sequences, FiniteSets, TLC

\* ------------------------------------------------------------- bounds
MaxStarts == 2

MaxStops == 1

MaxClears == 1

MaxQueries == 1

MaxSteps == 2

MaxActions == 2

MaxTime == 1

MaxTimeouts == 2

MaxFill == 11

\* ---------------------------------------------------------- constants
\* null, for tabId, startedAt and stoppedAt
Null == -1

\* The tabs a start command may name.  Tab ids are opaque: the first start
\* names tab 1, a later one the same tab or another.
TabIds == {1, 2}

DEFAULTS == [maxSteps |-> 8, fastMode |-> TRUE]

Invocations == 1..MaxStarts

VARIABLES
  env,        \* what the popup, the settings, the model and the clock may do in this run of the extension
  runState,   \* the runState object of background.js
  inv,        \* the runAgent invocations, in the order of their start commands
  emit,       \* the messages pushed by the last handler that pushed any
  now,        \* the last value Date.now() returned
  nStarts,    \* start commands received
  nStops,     \* stop commands received
  nClears,    \* clear-log commands received
  nQueries,   \* status queries received
  dom,        \* the document of the tab: its elements in document order
  content,    \* the message content.js is handling, its response, what it did to the page
  popup       \* the state object of popup.js and the messages on their way to and from it

vars == <<env, runState, inv, emit, now, nStarts, nStops, nClears, nQueries,
          dom, content, popup>>

\* content.js before it has handled a message.
NoMessage == [type |-> "", request |-> <<>>, response |-> <<>>, effects |-> <<>>]

\* ------------------------------------------------- runAgent invocations
\* An invocation is the local state of one call of runAgent: pc (the await it
\* is suspended at, or how it ended), its tabId, the settings it read, step,
\* the action sent to the page and the actions left, and the two promises of
\* a perception (st, shot).  The other fields record what it did: ran (it set
\* running), exit (the break it left the loop by), halted, the requests it
\* sent (nPerceive, nModel, nDispatch, stepDispatch: those of this step), the
\* actions its decisions held (nActs), the outcome lines it logged
\* (nOutcomes), the final statuses it pushed (finalStatus), the decision of
\* this step (decision: the parsed reply, its actions by their number) and
\* the API keys getSettings found (keys: in config.js and in the storage),
\* collectOptions, the options its last COLLECT_STATE message carried
\* (options), the screenshot captures it started (nShots) and whether the
\* request to the model of this step has an image part (image).  shot is
\* "rejected" when the capture failed: the joined value is then null.
\* trip is its last call of sendToTab, as it was when the loop went on, late
\* the calls that timed out, in their order, and stopAt the perception requests it had sent when the first
\* stop command after its start was received.
Awaiting == {"settings", "inject", "perceive", "model", "action", "sleep"}

\* The awaits after running was set to true: the loop is executing.
InLoop == {"inject", "perceive", "model", "action", "sleep"}

Ended == {"busy", "nosettings", "nokey", "noinject", "returned", "threw"}

NoAction == [isObject |-> FALSE, type |-> "", extra |-> FALSE]

\* collectOptions before line 299.
NoOptions == [maxElements |-> Null, maxText |-> Null]

\* agentResponse before the model has replied in this step.
NoDecision ==
  [got |-> FALSE, isNull |-> FALSE, done |-> FALSE, final |-> FALSE,
   isArray |-> FALSE, n |-> 0]

\* Lines 131-153: a call of sendToTab.  resolved is the flag of line 133,
\* timer the timeout of line 134 (set, cleared or fired), callback whether
\* chrome.tabs.sendMessage has called back, settles how often resolve or
\* reject was called and result what the promise settled with.
NoTrip ==
  [kind |-> "", resolved |-> FALSE, timer |-> "none", callback |-> "none",
   settles |-> 0, result |-> ""]

NewInvocation(tabId) ==
  [pc |-> "settings", tabId |-> tabId, maxSteps |-> 0, fastMode |-> TRUE,
   step |-> 0, action |-> NoAction, actions |-> <<>>, st |-> "none", shot |-> "none",
   ran |-> FALSE, exit |-> "", halted |-> FALSE, nPerceive |-> 0, nModel |-> 0,
   nDispatch |-> 0, stepDispatch |-> 0, nActs |-> 0, nOutcomes |-> 0,
   finalStatus |-> 0, decision |-> NoDecision,
   keys |-> [config |-> "", stored |-> ""],
   collectOptions |-> NoOptions, options |-> NoOptions, nShots |-> 0,
   image |-> FALSE, trip |-> NoTrip, late |-> <<>>, stopAt |-> Null]

Idle == [NewInvocation(Null) EXCEPT !.pc = "none"]

\* ------------------------------------------------------------- inputs
\* The environments the model is checked in.  An environment bounds the
\* commands of the popup (starts, stops, clears, queries), the maxSteps the settings
\* may hold (steps), the actions of one decision (actions), the clock (time)
\* and says whether the settings may turn fast mode off (shots), whether
\* config.js may export an API key (config) and how many round-trips of a run
\* the page may answer after their timeout (timeouts), and whether the
\* commands are the clicks in one open popup, which the pushed status
\* events reach one by one (popup), or come from anywhere.
Environment(starts, stops, clears, queries, steps, actions, time, shots, config, timeouts, open) ==
  [starts |-> starts, stops |-> stops, clears |-> clears, queries |-> queries,
   steps |-> steps, actions |-> actions, time |-> time, shots |-> shots,
   config |-> config, timeouts |-> timeouts, popup |-> open]

\* One run with every kind of settings and reply; overlapping runs with a
\* stop command; overlapping runs with a clear-log command and a status query;
\* one run in a page that may answer later than the timeout of sendToTab;
\* runs started and stopped by the clicks in one open popup.
Environments ==
  {Environment(MaxStarts - 1, MaxStops, 0, 0, MaxSteps, MaxActions, MaxTime, TRUE, TRUE, 0, FALSE),
   Environment(MaxStarts, MaxStops, 0, 0, MaxSteps - 1, MaxActions - 1, 0, FALSE, FALSE, 0, FALSE),
   Environment(MaxStarts, 0, MaxClears, MaxQueries, MaxSteps - 1, MaxActions - 1, 0, FALSE, FALSE, 0, FALSE),
   Environment(MaxStarts - 1, 0, 0, 0, MaxSteps, MaxActions, 0, FALSE, FALSE, MaxTimeouts, FALSE),
   Environment(MaxStarts, MaxStops, 0, 0, MaxSteps - 1, MaxActions - 1, 0, FALSE, FALSE, 0, TRUE)}

\* Date.now(): never earlier than the value it returned before.  The clock
\* is read where startedAt and stoppedAt are set.
DateNow == {t \in now..(now + 1) : t <= env.time}

\* What chrome.storage.local holds and what config.js exports.
StoredSettings ==
  [apiKey : {"", "key"}, maxSteps : 1..env.steps,
   fastMode : IF env.shots THEN {"undefined", "true", "false"} ELSE {"undefined", "true"}]

\* Lines 10-25: what loadEnvApiKey returns, "" when config.js has no key.
EnvApiKeys == IF env.config THEN {"", "key"} ELSE {""}

\* An entry of the actions array of a reply: an object with a type, possibly
\* with a field the schema does not declare, or null.
Entry(type, extra) == [isObject |-> TRUE, type |-> type, extra |-> extra]

Click == Entry("click", FALSE)

Entries ==
  {Click, Entry("wait", FALSE), Entry("finish", FALSE), Entry("hover", FALSE),
   Entry("click", TRUE), NoAction}

\* Action lists of 1..MaxActions entries, at most one of them not a plain click.
ActionLists ==
  {[j \in 1..n |-> IF j = p THEN e ELSE Click] :
     n \in 1..env.actions, p \in 1..env.actions, e \in Entries}

Reply(plan, done, final, isArray, actions) ==
  [isNull |-> FALSE, plan |-> plan, done |-> done, final |-> final,
   isArray |-> isArray, actions |-> actions]

\* JSON.parse of the reply text: null, or an object.  A reply whose actions
\* field is not an array (isArray = FALSE) holds nothing or one action object.
Replies ==
  {[Reply(FALSE, FALSE, FALSE, FALSE, <<>>) EXCEPT !.isNull = TRUE],
   Reply(FALSE, TRUE, FALSE, TRUE, <<Click>>),
   Reply(TRUE, TRUE, TRUE, TRUE, <<>>),
   Reply(FALSE, FALSE, FALSE, TRUE, <<>>),
   Reply(FALSE, FALSE, FALSE, FALSE, <<>>),
   Reply(FALSE, FALSE, FALSE, FALSE, <<Click>>)}
  \cup {Reply(FALSE, FALSE, FALSE, TRUE, l) : l \in ActionLists}

\* Lines 27-58: what RESPONSE_SCHEMA allows as an entry of actions.
ActionTypes == {"click", "type", "scroll", "wait", "key", "finish"}

RESPONSE_SCHEMA(entry) ==
  entry.isObject /\ entry.type \in ActionTypes /\ ~entry.extra

\* ------------------------------------------------------ log, sendStatus
\* A handler runs on a world w: the run state, the invocation it belongs to,
\* the messages pushed so far and the clock value it reads.
World(a, t) == [rs |-> runState, a |-> a, out |-> <<>>, t |-> t, read |-> FALSE]

log(w, entry) ==
  [w EXCEPT !.rs.logs = Append(@, entry),
            !.out = Append(@, [type |-> "AGENT_LOG", entry |-> entry])]

sendStatus(w) ==
  [w EXCEPT !.out = Append(@, [type |-> "AGENT_STATUS",
                               running |-> w.rs.running,
                               startedAt |-> w.rs.startedAt,
                               stoppedAt |-> w.rs.stoppedAt,
                               logs |-> w.rs.logs])]

\* ------------------------------------------------------------ runAgent
\* getSettings taking the API key from the storage only.
getSettings_StoredKeyOnly(envApiKey, data) ==
  [apiKey |-> data.apiKey,
   maxSteps |-> data.maxSteps,
   fastMode |-> IF data.fastMode = "undefined" THEN DEFAULTS.fastMode
                ELSE data.fastMode = "true"]

\* Lines 99-116.  The stored maxSteps is always set in StoredSettings (the
\* popup saves it with every change), so its default is never taken.
getSettings(envApiKey, data) ==
  [apiKey |-> IF envApiKey # "" THEN envApiKey ELSE data.apiKey,
   maxSteps |-> data.maxSteps,
   fastMode |-> IF data.fastMode = "undefined" THEN DEFAULTS.fastMode
                ELSE data.fastMode = "true"]

\* An exception nothing catches: the promise of runAgent rejects and the run
\* state stays as it is.
Throw(w) == [w EXCEPT !.a.pc = "threw"]

\* Lines 406-410: after the loop.
Finalize(w, why) ==
  LET w1 == [w EXCEPT !.rs.running = FALSE,
                      !.rs.stopRequested = FALSE,
                      !.rs.stoppedAt = w.t,
                      !.read = TRUE,
                      !.a.pc = "returned",
                      !.a.exit = why,
                      !.a.finalStatus = @ + 1]
  IN log(sendStatus(w1), "Agent stopped.")

\* Lines 131-141: the promise of sendToTab is created, the timer set and the
\* message sent.
sendToTab(kind) ==
  [NoTrip EXCEPT !.kind = kind, !.timer = "set", !.callback = "pending"]

\* Lines 134-139: the timer fired.
Timeout(trip) ==
  IF ~trip.resolved
  THEN [trip EXCEPT !.timer = "fired", !.resolved = TRUE,
                    !.settles = @ + 1, !.result = "timeout"]
  ELSE [trip EXCEPT !.timer = "fired"]

\* The callback of sendMessage without the test of resolved.
Callback_NoFlag(trip, lastError) ==
  [trip EXCEPT !.callback = "arrived", !.resolved = TRUE,
               !.timer = IF @ = "set" THEN "cleared" ELSE @,
               !.settles = @ + 1,
               !.result = IF lastError THEN "transport" ELSE "response"]

\* Lines 141-151: the callback of chrome.tabs.sendMessage.
Callback(trip, lastError) ==
  IF trip.resolved THEN [trip EXCEPT !.callback = "arrived"]
  ELSE [trip EXCEPT !.callback = "arrived", !.resolved = TRUE,
                    !.timer = IF @ = "set" THEN "cleared" ELSE @,
                    !.settles = @ + 1,
                    !.result = IF lastError THEN "transport" ELSE "response"]

\* LoopHead capturing a screenshot in fast mode too.
LoopHead_AlwaysCapture(w) ==
  IF ~(w.a.step <= w.a.maxSteps) THEN Finalize(w, "budget")
  ELSE IF w.rs.stopRequested THEN Finalize(w, "stop")
  ELSE [log(w, "Collecting state") EXCEPT
          !.a.pc = "perceive",
          !.a.st = "pending",
          !.a.trip = sendToTab("perceive"),
          !.a.options = w.a.collectOptions,
          !.a.shot = "pending",
          !.a.nShots = @ + 1,
          !.a.image = FALSE,
          !.a.stepDispatch = 0,
          !.a.nPerceive = @ + 1]

\* LoopHead with the budget test off by one.
LoopHead_OffByOne(w) ==
  IF ~(w.a.step <= w.a.maxSteps + 1) THEN Finalize(w, "budget")
  ELSE IF w.rs.stopRequested THEN Finalize(w, "stop")
  ELSE [log(w, "Collecting state") EXCEPT
          !.a.pc = "perceive",
          !.a.st = "pending",
          !.a.trip = sendToTab("perceive"),
          !.a.options = w.a.collectOptions,
          !.a.shot = IF w.a.fastMode THEN "null" ELSE "pending",
          !.a.nShots = IF w.a.fastMode THEN @ ELSE @ + 1,
          !.a.image = FALSE,
          !.a.stepDispatch = 0,
          !.a.nPerceive = @ + 1]

\* Lines 310-323: the head of the step loop with step = w.a.step, up to the
\* await of the perception round-trip and the screenshot.
LoopHead(w) ==
  IF ~(w.a.step <= w.a.maxSteps) THEN Finalize(w, "budget")
  ELSE IF w.rs.stopRequested THEN Finalize(w, "stop")
  ELSE [log(w, "Collecting state") EXCEPT
          !.a.pc = "perceive",
          !.a.st = "pending",
          !.a.trip = sendToTab("perceive"),
          !.a.options = w.a.collectOptions,
          !.a.shot = IF w.a.fastMode THEN "null" ELSE "pending",
          !.a.nShots = IF w.a.fastMode THEN @ ELSE @ + 1,
          !.a.image = FALSE,
          !.a.stepDispatch = 0,
          !.a.nPerceive = @ + 1]

NextStep(w) ==
  LoopHead([w EXCEPT !.a.step = @ + 1, !.a.actions = <<>>,
                     !.a.decision = NoDecision])

\* StepFailed retrying the step instead of breaking the loop.
StepFailed_Retry(w, entry, why) == LoopHead(log(w, entry))

\* Lines 333-336, 354-357, 362-365: a failed perception, model call or parse
\* is logged and breaks the loop.
StepFailed(w, entry, why) == Finalize(log(w, entry), why)

\* Lines 385-392: the head of the action loop, w.a.actions the actions left;
\* w.a.action is the action sent to the page, until its round-trip settles.
NextAction(w) ==
  IF w.a.actions = <<>> THEN NextStep(w)
  ELSE IF w.rs.stopRequested THEN NextStep(w)
  ELSE IF ~Head(w.a.actions).isObject THEN Throw(w)
  ELSE [log(w, "Action") EXCEPT !.a.pc = "action",
                                !.a.trip = sendToTab("action"),
                                !.a.action = Head(w.a.actions),
                                !.a.actions = Tail(@),
                                !.a.stepDispatch = @ + 1,
                                !.a.nDispatch = @ + 1]

\* Lines 338-353 and 205-214: buildPrompt and the call of the model, with
\* the image when the screenshot is not null.
CallModel(w) ==
  [w EXCEPT !.a.pc = "model", !.a.nModel = @ + 1, !.a.image = (w.a.shot = "png")]

\* Lines 324-332: Promise.all is fulfilled once both promises are.
Joined(w) ==
  IF w.a.pc = "perceive" /\ w.a.st = "ok" /\ w.a.shot # "pending"
  THEN CallModel(w) ELSE w

\* Line 361: agentResponse, as the invocation record keeps it.
Parsed(w, reply) ==
  [w EXCEPT !.a.decision = [got |-> TRUE, isNull |-> reply.isNull,
                            done |-> reply.done, final |-> reply.final,
                            isArray |-> reply.isArray, n |-> Len(reply.actions)]]

\* Decide looking at the actions before it looks at done.
Decide_ActionsBeforeDone(w0, reply) ==
  LET w == Parsed(w0, reply)
  IN IF reply.isNull THEN Throw(w)
     ELSE LET w1 == IF reply.plan THEN log(w, "Plan") ELSE w
              actions == IF reply.isArray THEN reply.actions ELSE <<>>
          IN IF Len(actions) > 0
             THEN NextAction([w1 EXCEPT !.a.actions = actions,
                                        !.a.nActs = @ + Len(actions)])
             ELSE IF reply.done
             THEN Finalize(log(w1, IF reply.final THEN "Done: final"
                                   ELSE "Done: Task completed."), "done")
             ELSE Finalize(log(w1, "No actions returned. Stopping."), "empty")

\* ScreenshotFailed breaking the loop as a failed perception does.
ScreenshotFailed_Abort(w) ==
  IF w.a.pc = "perceive"
  THEN Finalize(log([w EXCEPT !.a.shot = "rejected"], "Screenshot failed"), "perception")
  ELSE log([w EXCEPT !.a.shot = "rejected"], "Screenshot failed")

\* Lines 326-329: the capture rejected.
ScreenshotFailed(w) ==
  Joined(log([w EXCEPT !.a.shot = "rejected"], "Screenshot failed"))

\* Lines 367-383: the decision.
Decide(w0, reply) ==
  LET w == Parsed(w0, reply)
  IN
  IF reply.isNull THEN Throw(w)
  ELSE LET w1 == IF reply.plan THEN log(w, "Plan") ELSE w
           actions == IF reply.isArray THEN reply.actions ELSE <<>>
       IN IF reply.done
          THEN Finalize(log(w1, IF reply.final THEN "Done: final"
                                ELSE "Done: Task completed."), "done")
          ELSE IF Len(actions) = 0
          THEN Finalize(log(w1, "No actions returned. Stopping."), "empty")
          ELSE NextAction([w1 EXCEPT !.a.actions = actions,
                                     !.a.nActs = @ + Len(actions)])

\* ActionOutcome breaking the loop when the action did not succeed.
ActionOutcome_Abort(w, outcome) ==
  IF outcome = "ok"
  THEN [log(w, "Result") EXCEPT !.a.pc = "sleep", !.a.action = NoAction,
                                !.a.nOutcomes = @ + 1]
  ELSE Finalize(log(w, "Action failed"), "action")

\* Lines 393-400: the outcome of an action.
ActionOutcome(w, outcome) ==
  LET w1 == CASE outcome = "ok" -> log(w, "Result")
              [] outcome = "failed" -> log(w, "Action failed")
              [] OTHER -> log(w, "Action error")
  IN [w1 EXCEPT !.a.pc = "sleep", !.a.action = NoAction, !.a.nOutcomes = @ + 1]

\* StartRun giving the new run an empty log.
StartRun_FreshLog(w, settings) ==
  LET w1 == [w EXCEPT !.rs = [running |-> TRUE, stopRequested |-> FALSE,
                              tabId |-> w.a.tabId, logs |-> <<>>,
                              startedAt |-> w.t, stoppedAt |-> Null],
                      !.read = TRUE,
                      !.a.ran = TRUE,
                      !.a.maxSteps = settings.maxSteps,
                      !.a.fastMode = settings.fastMode,
                      !.a.collectOptions =
                        IF settings.fastMode
                        THEN [maxElements |-> 60, maxText |-> 0]
                        ELSE [maxElements |-> 120, maxText |-> 4000],
                      !.a.pc = "inject"]
  IN log(sendStatus(w1), "Injecting content script...")

\* Lines 289-304: the run state of a new run, up to the await of the injection.
StartRun(w, settings) ==
  LET w1 == [w EXCEPT !.rs = [running |-> TRUE, stopRequested |-> FALSE,
                              tabId |-> w.a.tabId, logs |-> w.rs.logs,
                              startedAt |-> w.t, stoppedAt |-> Null],
                      !.read = TRUE,
                      !.a.ran = TRUE,
                      !.a.maxSteps = settings.maxSteps,
                      !.a.fastMode = settings.fastMode,
                      !.a.collectOptions =
                        IF settings.fastMode
                        THEN [maxElements |-> 60, maxText |-> 0]
                        ELSE [maxElements |-> 120, maxText |-> 4000],
                      !.a.pc = "inject"]
  IN log(sendStatus(w1), "Injecting content script...")

\* Lines 284-287: no API key.
MissingKey(w) == [log(w, "Missing API key.") EXCEPT !.a.pc = "nokey"]

\* Lines 305-308: the injection failed.
InjectFailed(w) ==
  [log(w, "Failed to inject content script") EXCEPT
     !.rs.running = FALSE, !.a.pc = "noinject"]

\* Lines 278-281: runAgent called while a run is running.
AlreadyRunning(w) == [log(w, "Agent already running.") EXCEPT !.a.pc = "busy"]

\* runAgent logging the rejection without returning.
runAgent_NoReturn(w) ==
  IF w.rs.running THEN log(w, "Agent already running.") ELSE w

\* Lines 277-283: runAgent up to the await of getSettings.
runAgent(w) == IF w.rs.running THEN AlreadyRunning(w) ELSE w

\* ------------------------------------------------------------ popup.js
\* Lines 22-28 of popup.js: state.running, with the AGENT_STATUS messages on
\* their way to the popup (inbox) and the commands on their way to the
\* background (outbox).
Closed == [running |-> FALSE, inbox |-> <<>>, outbox |-> <<>>]

\* Lines 36-40 of popup.js.
setRunning(p, isRunning) == [p EXCEPT !.running = isRunning]

\* Lines 76-84: chrome.runtime.sendMessage of the pushed messages out; the
\* AGENT_STATUS messages among them are on their way to the open popup (an
\* AGENT_LOG message only adds a line to the popup's log).
Pushed(p, out) ==
  IF env.popup
  THEN [p EXCEPT !.inbox = @ \o SelectSeq(out, LAMBDA m : m.type = "AGENT_STATUS")]
  ELSE p

\* The background received the command the popup sent first.
Received(p) == IF env.popup THEN [p EXCEPT !.outbox = Tail(@)] ELSE p

\* The command the background receives next is of this type.
Sent(type) == env.popup => popup.outbox # <<>> /\ Head(popup.outbox) = type

\* The handler ran on world w for invocation i, p the popup and its messages
\* before the handler pushed any.
CommitFrom(i, w, p) ==
  /\ w.read \/ w.t = now
  /\ runState' = w.rs
  /\ inv' = [inv EXCEPT ![i] = w.a]
  /\ emit' = IF w.out = <<>> THEN emit ELSE w.out
  /\ now' = w.t
  /\ popup' = Pushed(p, w.out)

\* The handler ran on world w for invocation i.
Commit(i, w) == CommitFrom(i, w, popup)

\* ------------------------------------------------------------- actions
Init ==
  /\ env \in Environments
  /\ runState = [running |-> FALSE, stopRequested |-> FALSE, tabId |-> Null,
                 logs |-> <<>>, startedAt |-> Null, stoppedAt |-> Null]
  /\ inv = [i \in Invocations |-> Idle]
  /\ emit = <<>>
  /\ now = 0
  /\ nStarts = 0
  /\ nStops = 0
  /\ nClears = 0
  /\ nQueries = 0
  /\ dom = <<>>
  /\ content = NoMessage
  /\ popup = Closed

\* Lines 414-418: the popup's start command.
POPUP_START ==
  /\ nStarts < env.starts
  /\ Sent("POPUP_START")
  /\ \E tabId \in {t \in TabIds : t <= nStarts + 1} :
       CommitFrom(nStarts + 1, runAgent(World(NewInvocation(tabId), now)),
                  Received(popup))
  /\ nStarts' = nStarts + 1
  /\ UNCHANGED <<env, nStops, nClears, nQueries, dom, content>>

\* Lines 420-425.  halted records, for the invocations in the loop, that a
\* stop command set stopRequested while running was true, and stopAt, for
\* the invocations that have not ended, what they had sent to the page.
POPUP_STOP ==
  /\ nStops < env.stops
  /\ Sent("POPUP_STOP")
  /\ LET w == sendStatus([World(Idle, now) EXCEPT !.rs.stopRequested = TRUE])
     IN /\ runState' = w.rs
        /\ emit' = w.out
        /\ popup' = Pushed(Received(popup), w.out)
  /\ inv' = [i \in Invocations |->
              LET a == IF inv[i].pc \in Awaiting /\ inv[i].stopAt = Null
                       THEN [inv[i] EXCEPT !.stopAt = inv[i].nPerceive]
                       ELSE inv[i]
              IN IF runState.running /\ inv[i].pc \in InLoop
                 THEN [a EXCEPT !.halted = TRUE] ELSE a]
  /\ nStops' = nStops + 1
  /\ UNCHANGED <<env, now, nStarts, nClears, nQueries, dom, content>>

\* Lines 428-433: the response to the status query.
StatusResponse(rs) ==
  [running |-> rs.running, logs |-> rs.logs,
   startedAt |-> rs.startedAt, stoppedAt |-> rs.stoppedAt]

\* Lines 427-435: the query is answered with StatusResponse(runState).
POPUP_GET_STATUS ==
  /\ nQueries < env.queries
  /\ nQueries' = nQueries + 1
  /\ UNCHANGED <<env, runState, inv, emit, now, nStarts, nStops, nClears, dom, content, popup>>

\* The clear-log command putting the run state back to what it was at first.
POPUP_CLEAR_LOG_Reset ==
  /\ nClears < env.clears
  /\ LET w == sendStatus([World(Idle, now) EXCEPT
                            !.rs = [running |-> FALSE, stopRequested |-> FALSE,
                                    tabId |-> Null, logs |-> <<>>,
                                    startedAt |-> Null, stoppedAt |-> Null]])
     IN /\ runState' = w.rs
        /\ emit' = w.out
        /\ popup' = Pushed(popup, w.out)
  /\ nClears' = nClears + 1
  /\ UNCHANGED <<env, inv, now, nStarts, nStops, nQueries, dom, content>>

\* Lines 437-442.
POPUP_CLEAR_LOG ==
  /\ nClears < env.clears
  /\ LET w == sendStatus([World(Idle, now) EXCEPT !.rs.logs = <<>>])
     IN /\ runState' = w.rs
        /\ emit' = w.out
        /\ popup' = Pushed(popup, w.out)
  /\ nClears' = nClears + 1
  /\ UNCHANGED <<env, inv, now, nStarts, nStops, nQueries, dom, content>>

\* Lines 123-148 of popup.js: a click on Run, which is enabled while
\* state.running is false, with a task typed in and a tab active.
startRun ==
  /\ env.popup
  /\ ~popup.running
  /\ nStarts + Len(SelectSeq(popup.outbox, LAMBDA c : c = "POPUP_START")) < env.starts
  /\ popup' = [setRunning(popup, TRUE) EXCEPT !.outbox = Append(@, "POPUP_START")]
  /\ UNCHANGED <<env, runState, inv, emit, now, nStarts, nStops, nClears, nQueries,
                 dom, content>>

\* Lines 150-153 of popup.js: a click on Stop, which is enabled while
\* state.running is true.
stopRun ==
  /\ env.popup
  /\ popup.running
  /\ nStops + Len(SelectSeq(popup.outbox, LAMBDA c : c = "POPUP_STOP")) < env.stops
  /\ popup' = [popup EXCEPT !.outbox = Append(@, "POPUP_STOP")]
  /\ UNCHANGED <<env, runState, inv, emit, now, nStarts, nStops, nClears, nQueries,
                 dom, content>>

\* Lines 161-180 of popup.js: the popup receives the AGENT_STATUS message
\* pushed first.
AGENT_STATUS ==
  /\ popup.inbox # <<>>
  /\ popup' = [setRunning(popup, Head(popup.inbox).running) EXCEPT !.inbox = Tail(@)]
  /\ UNCHANGED <<env, runState, inv, emit, now, nStarts, nStops, nClears, nQueries,
                 dom, content>>

\* Lines 283-304: getSettings settled.
SettingsSettled(i) ==
  /\ inv[i].pc = "settings"
  /\ \/ Commit(i, [World(inv[i], now) EXCEPT !.a.pc = "nosettings"])
     \/ \E envApiKey \in EnvApiKeys, data \in StoredSettings, t \in DateNow :
          LET settings == getSettings(envApiKey, data)
              w == World([inv[i] EXCEPT !.keys = [config |-> envApiKey,
                                                  stored |-> data.apiKey]], t)
          IN IF settings.apiKey = "" THEN Commit(i, MissingKey(w))
             ELSE Commit(i, StartRun(w, settings))
  /\ UNCHANGED <<env, nStarts, nStops, nClears, nQueries, dom, content>>

\* Lines 304-313: ensureContentScript settled.
InjectSettled(i) ==
  /\ inv[i].pc = "inject"
  /\ \/ Commit(i, InjectFailed(World(inv[i], now)))
     \/ \E t \in DateNow : Commit(i, LoopHead(World([inv[i] EXCEPT !.step = 1], t)))
  /\ UNCHANGED <<env, nStarts, nStops, nClears, nQueries, dom, content>>

\* Lines 141-151 and 317-336: sendMessage called back for the perception
\* round-trip the loop awaits, with the state or with lastError set.
PerceiveSettled(i) ==
  /\ inv[i].pc = "perceive"
  /\ inv[i].st = "pending"
  /\ inv[i].trip.callback = "pending"
  /\ \E lastError \in BOOLEAN, t \in DateNow :
       LET trip == Callback(inv[i].trip, lastError)
           a == [inv[i] EXCEPT !.trip = trip]
       IN CASE trip.settles = inv[i].trip.settles ->
                 Commit(i, World(a, now))
            [] trip.result = "response" ->
                 Commit(i, Joined(World([a EXCEPT !.st = "ok"], now)))
            [] OTHER ->
                 Commit(i, StepFailed(World([a EXCEPT !.st = "failed"], t),
                                      "State collection failed", "perception"))
  /\ UNCHANGED <<env, nStarts, nStops, nClears, nQueries, dom, content>>

\* Lines 321-329: captureScreenshot settled.
ScreenshotSettled(i) ==
  /\ inv[i].shot = "pending"
  /\ \/ \E r \in {"png", "null"} :
          Commit(i, Joined(World([inv[i] EXCEPT !.shot = r], now)))
     \/ Commit(i, ScreenshotFailed(World(inv[i], now)))
  /\ UNCHANGED <<env, nStarts, nStops, nClears, nQueries, dom, content>>

\* Lines 346-392: callGemini settled.
ModelSettled(i) ==
  /\ inv[i].pc = "model"
  /\ \E t \in DateNow :
       LET w == World(inv[i], t)
       IN \/ Commit(i, StepFailed(w, "Gemini API error", "model"))
          \/ Commit(i, StepFailed(w, "Failed to parse model JSON", "parse"))
          \/ \E reply \in Replies : Commit(i, Decide(w, reply))
  /\ UNCHANGED <<env, nStarts, nStops, nClears, nQueries, dom, content>>

\* Lines 141-151 and 389-402: sendMessage called back for the action
\* round-trip the loop awaits, with the page's result (ok or not) or with
\* lastError set.
ActionSettled(i) ==
  /\ inv[i].pc = "action"
  /\ inv[i].trip.callback = "pending"
  /\ \E lastError \in BOOLEAN, ok \in BOOLEAN :
       LET trip == Callback(inv[i].trip, lastError)
           a == [inv[i] EXCEPT !.trip = trip]
       IN CASE trip.settles = inv[i].trip.settles ->
                 Commit(i, World(a, now))
            [] trip.result = "response" ->
                 Commit(i, ActionOutcome(World(a, now), IF ok THEN "ok" ELSE "failed"))
            [] OTHER ->
                 Commit(i, ActionOutcome(World(a, now), "error"))
  /\ UNCHANGED <<env, nStarts, nStops, nClears, nQueries, dom, content>>

\* Lines 134-139: the timer of the round-trip the loop awaits fired before
\* sendMessage called back; the promise rejects with "Timed out waiting for
\* content script" and the callback is still to come.
TimedOut(i) ==
  /\ inv[i].pc \in {"perceive", "action"}
  /\ inv[i].trip.timer = "set"
  /\ Len(inv[i].late) < env.timeouts
  /\ \E t \in DateNow :
       LET trip == Timeout(inv[i].trip)
           a == [inv[i] EXCEPT !.trip = trip, !.late = Append(@, trip)]
       IN IF inv[i].pc = "perceive"
          THEN Commit(i, StepFailed(World([a EXCEPT !.st = "failed"], t),
                                    "State collection failed", "perception"))
          ELSE Commit(i, ActionOutcome(World(a, now), "error"))
  /\ UNCHANGED <<env, nStarts, nStops, nClears, nQueries, dom, content>>

\* Lines 141-142: sendMessage called back for a round-trip that timed out
\* (the page has answered at last, or the port was closed).
LateResponse(i) ==
  /\ \E k \in 1..Len(inv[i].late), lastError \in BOOLEAN :
       /\ inv[i].late[k].callback = "pending"
       /\ Commit(i, World([inv[i] EXCEPT
                              !.late[k] = Callback(inv[i].late[k], lastError)], now))
  /\ UNCHANGED <<env, nStarts, nStops, nClears, nQueries, dom, content>>

\* Lines 402-410: sleep settled.
SleepSettled(i) ==
  /\ inv[i].pc = "sleep"
  /\ \E t \in DateNow :
       Commit(i, NextAction(World(inv[i], t)))
  /\ UNCHANGED <<env, nStarts, nStops, nClears, nQueries, dom, content>>

Next ==
  \/ POPUP_START
  \/ POPUP_STOP
  \/ POPUP_GET_STATUS
  \/ POPUP_CLEAR_LOG
  \/ \E i \in Invocations : SettingsSettled(i)
  \/ \E i \in Invocations : InjectSettled(i)
  \/ \E i \in Invocations : PerceiveSettled(i)
  \/ \E i \in Invocations : ScreenshotSettled(i)
  \/ \E i \in Invocations : ModelSettled(i)
  \/ \E i \in Invocations : ActionSettled(i)
  \/ \E i \in Invocations : SleepSettled(i)
  \/ \E i \in Invocations : TimedOut(i)
  \/ \E i \in Invocations : LateResponse(i)
  \/ startRun
  \/ stopRun
  \/ AGENT_STATUS

Spec == Init /\ [][Next]_vars

\* ---------------------------------------------------------- content.js
\* A string, as far as content.js looks at it: null, or lead white-space
\* characters, then the first len characters of a word (upper: with capital
\* letters), the last of them not white space, then trail white-space
\* characters. The word starts with the characters marks, which are quotes
\* and backslashes, and goes on with letters that are no hexadecimal digits.
Text(word, lead, len, trail) ==
  [isNull |-> FALSE, word |-> word, upper |-> FALSE, marks |-> <<>>,
   lead |-> lead, len |-> len, trail |-> trail]

NullText == [isNull |-> TRUE, word |-> "", upper |-> FALSE, marks |-> <<>>,
             lead |-> 0, len |-> 0, trail |-> 0]

\* The word of s, after the characters marks.
Marked(marks, s) == [s EXCEPT !.marks = marks, !.len = Len(marks) + s.len]

Length(s) == s.lead + s.len + s.trail

\* if (s), s || ..., s?.x: null and "" are falsy.
Truthy(s) == ~s.isNull /\ Length(s) > 0

trim(s) == [s EXCEPT !.lead = 0, !.trail = 0]

Min(a, b) == IF a <= b THEN a ELSE b

Max(a, b) == IF a >= b THEN a ELSE b

\* s.slice(0, end)
slice(s, end) ==
  LET lead == Min(s.lead, end)
      len == Min(s.len, end - lead)
  IN [s EXCEPT !.lead = lead, !.len = len,
               !.marks = SubSeq(s.marks, 1, Min(Len(s.marks), len)),
               !.trail = Min(s.trail, end - lead - len)]

toLowerCase(s) == [s EXCEPT !.upper = FALSE]

\* label.includes(needle)
includes(label, needle) ==
  \/ Length(needle) = 0
  \/ /\ label.word = needle.word
     /\ label.upper = needle.upper
     /\ needle.lead = 0 /\ needle.trail = 0
     /\ \/ needle.marks = <<>> /\ needle.len <= label.len - Len(label.marks)
        \/ needle.marks = label.marks /\ needle.len <= label.len

\* A number in halves, or undefined.
Num(twice) == [isNumber |-> TRUE, twice |-> twice]

Undefined == [isNumber |-> FALSE, twice |-> 0]

\* Math.round and Math.floor of a number given in halves.
round(twice) == (twice + 1) \div 2

floor(twice) == twice \div 2

\* Line 1.
DEFAULT_MAX_ELEMENTS == 120

\* Line 2.
DEFAULT_MAX_TEXT == 4000

\* Lines 4-8.
normalizeLimit(value, fallback, min, max) ==
  IF ~value.isNumber THEN fallback
  ELSE Min(max, Max(min, floor(value.twice)))

\* An element of the document: a button of 40 x 10 pixels with a one-letter
\* text, its rectangle in half pixels. parent is the position of its parent
\* element in the document, 0 for document.body.
Button ==
  [tag |-> "button", role |-> "", contenteditable |-> "", id |-> "",
   parent |-> 0,
   display |-> "block", visibility |-> "visible", opacity |-> "1",
   rect |-> [x |-> 0, y |-> 0, width |-> 80, height |-> 20],
   aria |-> NullText, labelledby |-> "", placeholder |-> NullText,
   alt |-> NullText, data_testid |-> NullText, data_test |-> NullText,
   data_qa |-> NullText, name |-> NullText,
   innerText |-> Text("ok", 0, 1, 0),
   textContent |-> Text("ok", 0, 1, 0)]

\* The longest label getLabel cuts a text to (line 33).
MaxLabel == 160

\* The element an aria-labelledby attribute names.
Labelling ==
  [Button EXCEPT !.tag = "div", !.id = "lbl",
                 !.innerText = Text("name", 1, MaxLabel + 1, 1),
                 !.textContent = Text("name", 1, MaxLabel + 1, 1)]

\* Elements with the attributes getLabel and getSelector choose from: an
\* aria-label and a placeholder, an id and a name, each test-id attribute,
\* a name, with a quote and with a backslash in it, and attributes of two
\* and three forms of selector.
Named ==
  {[Button EXCEPT !.tag = "input", !.aria = Text("send", 0, 4, 0),
                  !.placeholder = Text("hint", 0, 4, 0)],
   [Button EXCEPT !.tag = "input", !.id = "go", !.name = Text("q", 0, 1, 0)],
   [Button EXCEPT !.data_testid = Text("save", 0, 4, 0)],
   [Button EXCEPT !.data_test = Text("save", 0, 4, 0)],
   [Button EXCEPT !.data_qa = Text("save", 0, 4, 0)],
   [Button EXCEPT !.tag = "input", !.name = Text("q", 0, 1, 0)],
   [Button EXCEPT !.tag = "input", !.name = Marked(<<"\"">>, Text("q", 0, 1, 0))],
   [Button EXCEPT !.tag = "input", !.name = Marked(<<"\\">>, Text("q", 0, 1, 0))],
   [Button EXCEPT !.data_testid = Text("save", 0, 4, 0),
                  !.name = Text("q", 0, 1, 0), !.aria = Text("send", 0, 4, 0)],
   [Button EXCEPT !.name = Text("q", 0, 1, 0), !.aria = Text("send", 0, 4, 0)]}

\* Documents with elements in elements, and with two elements of one name:
\* a button in a div before a button of the body, buttons in two divs, two
\* radio buttons, and a form of an input with id and name and a button with
\* data-testid.
Nested ==
  LET div == [Button EXCEPT !.tag = "div"]
      inside(element, parent) == [element EXCEPT !.parent = parent]
      radio == [Button EXCEPT !.tag = "input", !.name = Text("choice", 0, 6, 0)]
  IN {<<div, inside(Button, 1), Button>>,
      <<div, inside(Button, 1), inside(Button, 1), div, inside(Button, 4)>>,
      <<radio, radio>>,
      <<[Button EXCEPT !.tag = "input", !.id = "go", !.name = Text("q", 0, 1, 0)],
        [Button EXCEPT !.data_testid = Text("save", 0, 4, 0)]>>}

\* The elements a document is made of: the button, elements that are not
\* visible, an element that is not a candidate and one that is one by its
\* role, and elements with each source of a label, longer than MaxLabel.
Shapes ==
  {Button,
   [Button EXCEPT !.display = "none"],
   [Button EXCEPT !.visibility = "hidden"],
   [Button EXCEPT !.opacity = "0"],
   [Button EXCEPT !.rect.width = 7],
   [Button EXCEPT !.rect.height = 0],
   Labelling,
   [Button EXCEPT !.tag = "div", !.role = "button"],
   [Button EXCEPT !.tag = "div", !.contenteditable = "true"],
   [Button EXCEPT !.aria = Text("send", 1, MaxLabel + 1, 1)],
   [Button EXCEPT !.aria = Text("send", 0, MaxLabel, 0)],
   [Button EXCEPT !.aria = Text("", 1, 0, 0), !.placeholder = Text("hint", 0, 4, 0)],
   [Button EXCEPT !.tag = "input", !.labelledby = "lbl"],
   [Button EXCEPT !.tag = "input", !.placeholder = Text("hint", 0, MaxLabel + 1, 1)],
   [Button EXCEPT !.tag = "input", !.alt = Text("logo", 1, MaxLabel + 1, 0)],
   [Button EXCEPT !.innerText = Text("ok", 2, MaxLabel + 1, 0),
                  !.textContent = Text("ok", 2, MaxLabel + 1, 0)],
   [Button EXCEPT !.innerText = Text("", 0, 0, 0),
                  !.textContent = Text("ok", 2, MaxLabel + 2, 2)]}
  \cup Named

\* Where the layout puts the element at position i of the document.
Layout(i, layout) ==
  IF layout = "reading" THEN [x |-> 0, y |-> 25 * i]
  ELSE [x |-> 5 * ((3 * i) % 4), y |-> 3 * ((7 * i) % 5)]

\* The documents: at most one element of any shape, then fill buttons, then
\* possibly the labelling element, laid out in reading order or scattered;
\* and the documents Nested.
Documents ==
  LET ends == {<<>>} \cup {<<s>> : s \in Shapes}
      fill(m) == [j \in 1..m |-> Button]
      place(d, layout) ==
        [i \in 1..Len(d) |->
           [d[i] EXCEPT !.rect.x = Layout(i, layout).x,
                        !.rect.y = Layout(i, layout).y]]
  IN {place(head \o fill(m) \o tail, layout) :
        head \in ends, tail \in {<<>>, <<Labelling>>},
        m \in {0, MaxFill - 1, MaxFill},
        layout \in {"reading", "scattered"}}
     \cup {place(d, "reading") : d \in Nested}

\* Lines 84-88: querySelectorAll("a, button, input, textarea, select,
\* [role=button], [contenteditable=true]").
Candidate(element) ==
  \/ element.tag \in {"a", "button", "input", "textarea", "select"}
  \/ element.role = "button"
  \/ element.contenteditable = "true"

\* Lines 10-18.
isVisible(element) ==
  IF element.visibility = "hidden" \/ element.display = "none" THEN FALSE
  ELSE IF element.rect.width < 2 * 4 \/ element.rect.height < 2 * 4 THEN FALSE
  ELSE IF element.opacity = "0" THEN FALSE
  ELSE TRUE

\* document.getElementById: the position of the first element with the id,
\* 0 when there is none.
getElementById(d, id) ==
  LET found == {i \in 1..Len(d) : d[i].id = id}
  IN IF found = {} THEN 0 ELSE CHOOSE i \in found : \A j \in found : i <= j

\* Lines 20-34, with the placeholder before the aria-label.
getLabel_PlaceholderFirst(d, element) ==
  LET labelEl == IF element.labelledby = "" THEN 0
                 ELSE getElementById(d, element.labelledby)
  IN IF Truthy(element.placeholder) THEN trim(element.placeholder)
     ELSE IF Truthy(element.aria) THEN trim(element.aria)
     ELSE IF labelEl # 0 /\ Truthy(d[labelEl].innerText)
     THEN trim(d[labelEl].innerText)
     ELSE IF Truthy(element.alt) THEN trim(element.alt)
     ELSE slice(trim(IF Truthy(element.innerText) THEN element.innerText
                     ELSE IF Truthy(element.textContent) THEN element.textContent
                     ELSE Text("", 0, 0, 0)), MaxLabel)

\* Lines 20-34.
getLabel(d, element) ==
  LET labelEl == IF element.labelledby = "" THEN 0
                 ELSE getElementById(d, element.labelledby)
  IN IF Truthy(element.aria) THEN trim(element.aria)
     ELSE IF labelEl # 0 /\ Truthy(d[labelEl].innerText)
     THEN trim(d[labelEl].innerText)
     ELSE IF Truthy(element.placeholder) THEN trim(element.placeholder)
     ELSE IF Truthy(element.alt) THEN trim(element.alt)
     ELSE slice(trim(IF Truthy(element.innerText) THEN element.innerText
                     ELSE IF Truthy(element.textContent) THEN element.textContent
                     ELSE Text("", 0, 0, 0)), MaxLabel)

RECURSIVE Escaped(_)

\* value.replace(/"/g, "\\\"") on the characters marks.
Escaped(marks) ==
  IF marks = <<>> THEN <<>>
  ELSE IF Head(marks) = "\"" THEN <<"\\", "\"">> \o Escaped(Tail(marks))
  ELSE <<Head(marks)>> \o Escaped(Tail(marks))

\* Lines 36-38.
escapeAttr(value) ==
  [value EXCEPT !.marks = Escaped(value.marks),
                !.len = value.len + Len(Escaped(value.marks)) - Len(value.marks)]

\* CSS.escape(id): the ids of the documents are made of letters, which it
\* leaves as they are.
CSS_escape(id) == id

\* A selector: none, #id, tag[attr="value"] (tag "" for no tag) or a path
\* of components tag or tag:nth-of-type(nth) (nth 0 for none) joined by " > ".
NoSelector ==
  [form |-> "", id |-> "", tag |-> "", attr |-> "", value |-> NullText, path |-> <<>>]

IdSelector(id) == [NoSelector EXCEPT !.form = "id", !.id = id]

AttrSelector(tag, attr, value) ==
  [NoSelector EXCEPT !.form = "attr", !.tag = tag, !.attr = attr, !.value = value]

PathSelector(path) == [NoSelector EXCEPT !.form = "path", !.path = path]

\* Lines 67-72: the elements of node's parent with node's tag, and the place
\* of node among them.
Siblings(d, node) ==
  {sib \in 1..Len(d) : d[sib].parent = d[node].parent /\ d[sib].tag = d[node].tag}

IndexOf(d, node) == Cardinality({sib \in Siblings(d, node) : sib <= node})

RECURSIVE Path(_, _)

\* Lines 63-76: the path from below document.body to node.
Path(d, node) ==
  IF node = 0 THEN <<>>
  ELSE Path(d, d[node].parent)
       \o <<[tag |-> d[node].tag,
             nth |-> IF Cardinality(Siblings(d, node)) > 1 THEN IndexOf(d, node)
                     ELSE 0]>>

\* Lines 40-78, with name before id.
getSelector_NameFirst(d, node) ==
  LET element == d[node]
      testId == IF Truthy(element.data_testid) THEN element.data_testid
                ELSE IF Truthy(element.data_test) THEN element.data_test
                ELSE element.data_qa
  IN IF Truthy(element.name)
     THEN AttrSelector(element.tag, "name", escapeAttr(element.name))
     ELSE IF element.id # "" THEN IdSelector(CSS_escape(element.id))
     ELSE IF Truthy(testId) THEN AttrSelector("", "data-testid", escapeAttr(testId))
     ELSE IF Truthy(element.aria)
     THEN AttrSelector(element.tag, "aria-label", escapeAttr(element.aria))
     ELSE PathSelector(Path(d, node))

\* Lines 40-78.
getSelector(d, node) ==
  LET element == d[node]
      testId == IF Truthy(element.data_testid) THEN element.data_testid
                ELSE IF Truthy(element.data_test) THEN element.data_test
                ELSE element.data_qa
  IN IF element.id # "" THEN IdSelector(CSS_escape(element.id))
     ELSE IF Truthy(testId) THEN AttrSelector("", "data-testid", escapeAttr(testId))
     ELSE IF Truthy(element.name)
     THEN AttrSelector(element.tag, "name", escapeAttr(element.name))
     ELSE IF Truthy(element.aria)
     THEN AttrSelector(element.tag, "aria-label", escapeAttr(element.aria))
     ELSE PathSelector(Path(d, node))

\* Lines 94-105: the descriptor of the element at position node.
Descriptor(d, node) ==
  [node |-> node,
   tag |-> d[node].tag,
   label |-> getLabel(d, d[node]),
   selector |-> getSelector(d, node),
   rect |-> [x |-> round(d[node].rect.x), y |-> round(d[node].rect.y),
             width |-> round(d[node].rect.width),
             height |-> round(d[node].rect.height)]]

\* Line 110: the comparator of the sort is negative, or zero.
Before(a, b) ==
  IF a.rect.y - b.rect.y # 0 THEN a.rect.y - b.rect.y < 0
  ELSE a.rect.x - b.rect.x <= 0

RECURSIVE Insert(_, _)

\* e put into the sorted sequence s, after the elements it compares equal to.
Insert(s, e) ==
  IF s = <<>> THEN <<e>>
  ELSE IF Before(Head(s), e) THEN <<Head(s)>> \o Insert(Tail(s), e)
  ELSE <<e>> \o s

RECURSIVE sort(_)

\* Line 110: Array.prototype.sort, which is stable.
sort(s) ==
  IF s = <<>> THEN <<>>
  ELSE Insert(sort(SubSeq(s, 1, Len(s) - 1)), s[Len(s)])

RECURSIVE Collect(_, _, _, _)

\* Lines 90-108: the loop over the candidates, from position node on.
Collect(d, node, elements, maxElements) ==
  IF node > Len(d) THEN elements
  ELSE IF ~Candidate(d[node]) THEN Collect(d, node + 1, elements, maxElements)
  ELSE IF ~isVisible(d[node]) THEN Collect(d, node + 1, elements, maxElements)
  ELSE LET pushed == Append(elements, Descriptor(d, node))
       IN IF Len(pushed) >= maxElements THEN pushed
          ELSE Collect(d, node + 1, pushed, maxElements)

\* document.body.innerText
bodyText == Text("body", 1, 2 * MaxLabel, 1)

\* s.replace(/\s+/g, " ") at the ends of s.
collapse(s) == [s EXCEPT !.lead = Min(1, s.lead), !.trail = Min(1, s.trail)]

\* collectPageState without the sort.
collectPageState_Unsorted(d, options) ==
  LET maxElements == normalizeLimit(options.maxElements, DEFAULT_MAX_ELEMENTS, 10, 500)
      maxText == normalizeLimit(options.maxText, DEFAULT_MAX_TEXT, 0, 20000)
  IN [elements |-> Collect(d, 1, <<>>, maxElements),
      textSnippet |-> IF maxText > 0 THEN slice(trim(collapse(bodyText)), maxText)
                      ELSE Text("", 0, 0, 0)]

\* Lines 80-132.
collectPageState(d, options) ==
  LET maxElements == normalizeLimit(options.maxElements, DEFAULT_MAX_ELEMENTS, 10, 500)
      maxText == normalizeLimit(options.maxText, DEFAULT_MAX_TEXT, 0, 20000)
  IN [elements |-> sort(Collect(d, 1, <<>>, maxElements)),
      textSnippet |-> IF maxText > 0 THEN slice(trim(collapse(bodyText)), maxText)
                      ELSE Text("", 0, 0, 0)]

\* The options of a COLLECT_STATE message.
CollectOptions ==
  [maxElements : {Undefined, Num(2 * 5), Num(2 * 10), Num(2 * 10 + 1), Num(2 * 501)},
   maxText : {Num(0), Num(2 * 100)}]

\* Selectors of an action that the model of the language writes itself.
Selectors == {NoSelector, IdSelector("lbl"), IdSelector("gone")}

RECURSIVE Unescaped(_)

\* The characters a CSS string stands for: a backslash makes the character
\* after it, which is no hexadecimal digit here, stand for itself.
Unescaped(marks) ==
  IF marks = <<>> THEN <<>>
  ELSE IF Head(marks) = "\\"
  THEN IF Tail(marks) = <<>> THEN <<>>
       ELSE <<Head(Tail(marks))>> \o Unescaped(Tail(Tail(marks)))
  ELSE <<Head(marks)>> \o Unescaped(Tail(marks))

\* The value of the string "value" in a selector.
StringValue(value) ==
  [value EXCEPT !.marks = Unescaped(value.marks),
                !.len = value.len + Len(Unescaped(value.marks)) - Len(value.marks)]

\* element.getAttribute(attr)
getAttribute(element, attr) ==
  CASE attr = "data-testid" -> element.data_testid
    [] attr = "data-test" -> element.data_test
    [] attr = "data-qa" -> element.data_qa
    [] attr = "name" -> element.name
    [] attr = "aria-label" -> element.aria
    [] attr = "placeholder" -> element.placeholder
    [] attr = "alt" -> element.alt
    [] OTHER -> NullText

RECURSIVE MatchesPath(_, _, _)

\* The element at position i matches the last component of path, and its
\* parent the components before it.
MatchesPath(d, i, path) ==
  LET last == path[Len(path)]
  IN /\ d[i].tag = last.tag
     /\ last.nth = 0 \/ IndexOf(d, i) = last.nth
     /\ \/ Len(path) = 1
        \/ /\ d[i].parent # 0
           /\ MatchesPath(d, d[i].parent, SubSeq(path, 1, Len(path) - 1))

\* element.matches(selector)
Matches(d, i, selector) ==
  CASE selector.form = "id" -> d[i].id = selector.id
    [] selector.form = "attr" ->
         /\ selector.tag = "" \/ d[i].tag = selector.tag
         /\ ~getAttribute(d[i], selector.attr).isNull
         /\ getAttribute(d[i], selector.attr) = StringValue(selector.value)
    [] selector.form = "path" ->
         Len(selector.path) > 0 /\ MatchesPath(d, i, selector.path)
    [] OTHER -> FALSE

\* document.querySelector: the position of the first element the selector
\* matches, 0 when there is none.
querySelector(d, selector) ==
  LET found == {i \in 1..Len(d) : Matches(d, i, selector)}
  IN IF found = {} THEN 0 ELSE CHOOSE i \in found : \A j \in found : i <= j

\* Lines 134-154.
resolveTarget(d, action) ==
  LET el == IF action.selector # NoSelector THEN querySelector(d, action.selector) ELSE 0
      needle == toLowerCase(action.text)
      found == {i \in 1..Len(d) :
                  /\ Candidate(d[i])
                  /\ Truthy(toLowerCase(getLabel(d, d[i])))
                  /\ includes(toLowerCase(getLabel(d, d[i])), needle)}
  IN IF el # 0 THEN el
     ELSE IF Truthy(action.text) /\ found # {}
     THEN CHOOSE i \in found : \A j \in found : i <= j
     ELSE 0

\* An action of a PERFORM_ACTION message.
PageActions ==
  LET types == {"", "click", "type", "scroll", "wait", "key", "hover", "finish"}
      action(type, selector, text, direction) ==
        [type |-> type, selector |-> selector, text |-> text, direction |-> direction]
  IN {action(type, selector, NullText, "") : type \in types, selector \in Selectors}
     \cup {action(type, NoSelector, text, "") :
             type \in types, text \in {Text("ok", 0, 1, 0), Text("none", 0, 1, 0)}}
     \cup {action("scroll", NoSelector, NullText, "up")}

\* What performAction did to the page: the operation and the element.
Effect(op, node) == [op |-> op, node |-> node]

Failure(error, kind) == [ok |-> FALSE, error |-> error, kind |-> kind]

Success(result) == [ok |-> TRUE, result |-> result]

Performed(response, effects) == [response |-> response, effects |-> effects]

\* Lines 165-217.
performAction(d, action) ==
  LET type == action.type
      element == resolveTarget(d, action)
  IN IF type = "" THEN Performed(Failure("Missing action type", ""), <<>>)
     ELSE IF type = "wait" THEN Performed(Success("waited"), <<>>)
     ELSE IF type = "scroll"
     THEN Performed(Success(IF action.direction = "up" THEN "scrolled up"
                            ELSE "scrolled down"),
                    <<Effect("scrollBy", 0)>>)
     ELSE IF element = 0 THEN Performed(Failure("Target not found", ""), <<>>)
     ELSE LET scrolled == <<Effect("scrollIntoView", element)>>
          IN IF type = "click"
             THEN Performed(Success("clicked"),
                            scrolled \o <<Effect("focus", element), Effect("click", element)>>)
             ELSE IF type = "type"
             THEN Performed(Success("typed"),
                            scrolled \o <<Effect("focus", element), Effect("value", element),
                                          Effect("input", element), Effect("change", element)>>)
             ELSE IF type = "key"
             THEN Performed(Success("key"), scrolled \o <<Effect("keydown", element)>>)
             ELSE Performed(Failure("Unsupported action", type), scrolled)

\* The main variables, which content.js does not touch.
background == <<env, runState, inv, emit, now, nStarts, nStops, nClears, nQueries, popup>>

\* A tab holding a document, content.js injected, and a background that
\* receives no command.
PageInit ==
  /\ env = Environment(0, 0, 0, 0, 1, 1, 0, FALSE, FALSE, 0, FALSE)
  /\ runState = [running |-> FALSE, stopRequested |-> FALSE, tabId |-> Null,
                 logs |-> <<>>, startedAt |-> Null, stoppedAt |-> Null]
  /\ inv = [i \in Invocations |-> Idle]
  /\ emit = <<>>
  /\ now = 0
  /\ nStarts = 0
  /\ nStops = 0
  /\ nClears = 0
  /\ nQueries = 0
  /\ dom \in Documents
  /\ content = NoMessage
  /\ popup = Closed

\* Lines 220-223.
COLLECT_STATE ==
  /\ content = NoMessage
  /\ \E options \in CollectOptions :
       content' = [type |-> "COLLECT_STATE", request |-> options,
                   response |-> collectPageState(dom, options), effects |-> <<>>]
  /\ UNCHANGED <<background, dom>>

\* The clicks on an element of the perceived state by the selector the
\* state gives for it.
Clicks(d) ==
  LET state == collectPageState(d, [maxElements |-> Undefined, maxText |-> Num(0)])
  IN {[type |-> "click", selector |-> state.elements[k].selector,
       text |-> NullText, direction |-> ""] : k \in 1..Len(state.elements)}

\* Lines 225-228.
PERFORM_ACTION ==
  /\ content = NoMessage
  /\ \E action \in PageActions \cup Clicks(dom) :
       LET done == performAction(dom, action)
       IN content' = [type |-> "PERFORM_ACTION", request |-> action,
                      response |-> done.response, effects |-> done.effects]
  /\ UNCHANGED <<background, dom>>

\* Lines 221 and 226: the response is sent, content.js waits for a message.
sendResponse ==
  /\ content # NoMessage
  /\ content' = NoMessage
  /\ UNCHANGED <<background, dom>>

PageNext == COLLECT_STATE \/ PERFORM_ACTION \/ sendResponse

PageSpec == PageInit /\ [][PageNext]_vars

\* ------------------------------------------------------------- claims
Running(i) == inv[i].pc \in InLoop

LogEvent(entry) == [type |-> "AGENT_LOG", entry |-> entry]

\* C1: at most one agent loop is executing at a time, and running is true
\* while a loop is executing.
C1_AtMostOneLoop ==
  /\ Cardinality({i \in Invocations : Running(i)}) <= 1
  /\ \A i \in Invocations : Running(i) => runState.running

\* C2: a start command received while running is true changes nothing of the
\* run state but the log, which gets the one line "Agent already running.";
\* its invocation ends there: it never perceives, decides or acts.
C2_RejectedStartIsNoOp ==
  [][/\ (nStarts' = nStarts + 1 /\ runState.running) =>
          /\ runState' = [runState EXCEPT !.logs = Append(@, "Agent already running.")]
          /\ emit' = <<LogEvent("Agent already running.")>>
          /\ \E tabId \in TabIds :
               inv' = [inv EXCEPT ![nStarts'] = [NewInvocation(tabId) EXCEPT !.pc = "busy"]]
     /\ \A i \in Invocations : inv[i].pc = "busy" => inv'[i] = inv[i]
    ]_vars

C2_Witness ==
  \E i \in Invocations :
    /\ inv[i].pc = "busy"
    /\ inv[i].tabId # runState.tabId
    /\ runState.running

\* C3: a run never issues more than maxSteps perception requests or model
\* calls; a run that ended with no stop command ever received, no failure and
\* no done or empty decision, every decision of one action, went through
\* exactly maxSteps cycles of one perception, one model call and one action.
C3_StepBudget ==
  \A i \in Invocations :
    LET a == inv[i]
    IN /\ a.nPerceive <= a.maxSteps
       /\ a.nModel <= a.maxSteps
       /\ (/\ a.pc = "returned"
           /\ a.exit \in {"budget", "stop"}
           /\ nStops = 0
           /\ a.nActs = a.nModel)
          => /\ a.exit = "budget"
             /\ a.nPerceive = a.maxSteps
             /\ a.nModel = a.maxSteps
             /\ a.nDispatch = a.maxSteps
             /\ a.nOutcomes = a.maxSteps

C3_Witness ==
  \E i \in Invocations :
    /\ inv[i].pc = "returned"
    /\ inv[i].exit = "budget"
    /\ nStops = 0
    /\ inv[i].nActs = inv[i].nModel
    /\ inv[i].maxSteps = 2
    /\ inv[i].nDispatch = 2
    /\ ~runState.running

\* C4: once a stop command has set stopRequested while a run was running, the
\* run sends no further perception request and no further action to the page.
C4_StopHalts ==
  [][\A i \in Invocations :
       inv[i].halted => /\ inv'[i].nPerceive = inv[i].nPerceive
                        /\ inv'[i].nDispatch = inv[i].nDispatch]_vars

\* C5: every run that set running to true and has ended emitted exactly one
\* final status.
C5_OneFinalStatus ==
  \A i \in Invocations :
    (inv[i].ran /\ inv[i].pc \in Ended) => inv[i].finalStatus = 1

\* C6: whenever running goes from true to false, stopRequested is false,
\* stoppedAt is a timestamp not earlier than startedAt, and the final status
\* and then the log line "Agent stopped." were pushed.
C6_CleanExit ==
  [][(runState.running /\ ~runState'.running) =>
       /\ ~runState'.stopRequested
       /\ runState'.stoppedAt # Null
       /\ runState'.stoppedAt >= runState'.startedAt
       /\ Len(runState'.logs) > 0
       /\ runState'.logs[Len(runState'.logs)] = "Agent stopped."
       /\ Len(emit') >= 2
       /\ emit'[Len(emit') - 1].type = "AGENT_STATUS"
       /\ ~emit'[Len(emit') - 1].running
       /\ emit'[Len(emit')] = LogEvent("Agent stopped.")]_vars

\* C7: once every external call of every run has settled, running is false.
C7_NeverStuckRunning ==
  (\A i \in Invocations : inv[i].pc \notin Awaiting) => ~runState.running

\* C8: no action of a reply that RESPONSE_SCHEMA does not allow is sent to
\* the page or kept to be sent.
C8_SchemaRejected ==
  \A i \in Invocations :
    /\ inv[i].pc = "action" => RESPONSE_SCHEMA(inv[i].action)
    /\ \A k \in 1..Len(inv[i].actions) : RESPONSE_SCHEMA(inv[i].actions[k])

OutcomeLines == {"Result", "Action failed", "Action error"}

\* C9: the settlement of an action round-trip, whatever it is, logs exactly
\* one outcome line and leaves the run in its delay with the same actions
\* left; unless a stop was requested, the delay is followed by the next
\* action of the decision or, after the last one, by the next step.
C9_ActionFailureContinues ==
  [][\A i \in Invocations :
       LET a == inv[i]
           b == inv'[i]
       IN /\ (a.pc = "action" /\ b.pc # "action") =>
               /\ b.pc = "sleep"
               /\ \E l \in OutcomeLines : runState'.logs = Append(runState.logs, l)
               /\ b.actions = a.actions
               /\ b.step = a.step
          /\ (a.pc = "sleep" /\ b.pc # "sleep" /\ ~runState.stopRequested) =>
               IF a.actions # <<>>
               THEN Head(a.actions).isObject =>
                      /\ b.pc = "action"
                      /\ b.action = Head(a.actions)
                      /\ b.actions = Tail(a.actions)
                      /\ b.step = a.step
               ELSE a.step < a.maxSteps =>
                      /\ b.pc = "perceive"
                      /\ b.step = a.step + 1
          /\ b.nDispatch = b.nOutcomes + (IF b.pc = "action" THEN 1 ELSE 0)
    ]_vars

C9_Witness ==
  \E i \in Invocations :
    /\ nStarts = 1
    /\ inv[i].pc = "perceive"
    /\ inv[i].step = 2
    /\ inv[i].nOutcomes = 2
    /\ \A k \in 1..Len(runState.logs) : runState.logs[k] # "Result"
    /\ \E k \in 1..Len(runState.logs) : runState.logs[k] = "Action error"
    /\ \E k \in 1..Len(runState.logs) : runState.logs[k] = "Action failed"

FailureLine(why) ==
  CASE why = "perception" -> "State collection failed"
    [] why = "model" -> "Gemini API error"
    [] why = "parse" -> "Failed to parse model JSON"

\* C10: a failed perception, model call or parse ends the run in the step it
\* happens in: the failure is logged, then the run goes idle, with no action
\* sent in that step; an ended run sends nothing more; every step sends one
\* perception request and at most one model call.
C10_StepFailureEndsRun ==
  [][\A i \in Invocations :
       LET a == inv[i]
           b == inv'[i]
       IN /\ (a.exit = "" /\ b.exit \in {"perception", "model", "parse"}) =>
               /\ a.pc = (IF b.exit = "perception" THEN "perceive" ELSE "model")
               /\ b.pc = "returned"
               /\ b.stepDispatch = 0
               /\ b.step = a.step
               /\ runState'.logs = runState.logs \o <<FailureLine(b.exit), "Agent stopped.">>
               /\ ~runState'.running
          /\ a.pc \in Ended =>
               /\ b.pc = a.pc
               /\ b.nPerceive = a.nPerceive
               /\ b.nModel = a.nModel
               /\ b.nDispatch = a.nDispatch
          /\ b.pc \in {"perceive", "model", "action", "sleep", "returned"} =>
               /\ b.nPerceive = (IF b.exit \in {"budget", "stop"} THEN b.step - 1 ELSE b.step)
               /\ b.nModel \in {b.nPerceive - 1, b.nPerceive}
               /\ b.pc \in {"model", "action", "sleep"} => b.nModel = b.step
               /\ b.pc = "perceive" => b.nModel = b.step - 1
    ]_vars

C10_Witness ==
  \E i \in Invocations :
    /\ inv[i].exit = "parse"
    /\ inv[i].step = 2
    /\ inv[i].nDispatch >= 1
    /\ ~runState.running
Summary(d) ==
  IF d.done THEN (IF d.final THEN "Done: final" ELSE "Done: Task completed.")
  ELSE "No actions returned. Stopping."

\* C11: a decision with done = true, or with an actions field that is empty
\* or not a list, ends the run in the segment it arrives in: none of its
\* actions is sent, the log gets (after the plan, if any) the final summary
\* "Done: ..." respectively "No actions returned. Stopping." and then "Agent
\* stopped.", every action of the earlier decisions has been sent and has
\* settled by then, and the run perceives and sends nothing afterwards.
C11_TerminalDecision ==
  [][\A i \in Invocations :
       LET a == inv[i]
           b == inv'[i]
           d == b.decision
       IN /\ (/\ ~a.decision.got
              /\ d.got
              /\ ~d.isNull
              /\ d.done \/ ~d.isArray \/ d.n = 0) =>
               /\ a.pc = "model"
               /\ b.pc = "returned"
               /\ b.exit = (IF d.done THEN "done" ELSE "empty")
               /\ ~runState'.running
               /\ b.stepDispatch = 0
               /\ b.nDispatch = a.nDispatch
               /\ b.nPerceive = a.nPerceive
               /\ b.nModel = a.nModel
               /\ b.step = a.step
               /\ b.actions = <<>>
               /\ \E plan \in {<<>>, <<"Plan">>} :
                    runState'.logs =
                      runState.logs \o plan \o <<Summary(d), "Agent stopped.">>
               /\ a.nDispatch = a.nActs
               /\ a.nOutcomes = a.nActs
          /\ (~a.decision.got /\ d.got /\ b.pc = "action") =>
               /\ ~d.done /\ d.isArray
               /\ Len(b.actions) + 1 = d.n
               /\ a.nDispatch = a.nActs
          /\ a.exit \in {"done", "empty"} => [b EXCEPT !.late = a.late] = a
    ]_vars

\* A second step's decision with done = true and a non-empty actions list,
\* after the two actions of the first step's decision.
C11_Witness ==
  \E i \in Invocations :
    /\ inv[i].exit = "done"
    /\ inv[i].decision.done
    /\ inv[i].decision.n = 1
    /\ inv[i].step = 2
    /\ inv[i].nDispatch = 2
    /\ inv[i].nActs = 2
    /\ ~runState.running
\* C12: no PERFORM_ACTION message carrying an action of type finish is sent
\* to the page.
C12_FinishNotDispatched ==
  \A i \in Invocations :
    inv[i].pc = "action" => inv[i].action.type # "finish"
\* C13: a start command whose getSettings finds no API key, neither in
\* config.js nor in the storage, and only such a one, refuses to start: the
\* one line "Missing API key." is logged and nothing else of the run state
\* changes (running, stopRequested, startedAt, stoppedAt and tabId are as they
\* were); the invocation has sent no request and never does anything more.
C13_MissingKeyRefuses ==
  [][\A i \in Invocations :
       LET a == inv[i]
           b == inv'[i]
       IN /\ (a.pc = "settings" /\ b.pc \notin {"settings", "nosettings"}) =>
               /\ b.pc = "nokey" <=> (b.keys.config = "" /\ b.keys.stored = "")
               /\ b.pc = "nokey" =>
                    /\ runState' = [runState EXCEPT !.logs = Append(@, "Missing API key.")]
                    /\ emit' = <<LogEvent("Missing API key.")>>
                    /\ b = [a EXCEPT !.pc = "nokey", !.keys = b.keys]
                    /\ ~b.ran
                    /\ b.nPerceive = 0 /\ b.nModel = 0 /\ b.nDispatch = 0
                    /\ (\A j \in Invocations : ~inv[j].ran) => ~runState'.running
          /\ a.pc = "nokey" => b = a
    ]_vars

\* A refused start after a run that ended: the run state still shows that
\* run's tab and timestamps.
C13_Witness ==
  \E i, j \in Invocations :
    /\ inv[i].pc = "nokey"
    /\ inv[i].tabId # runState.tabId
    /\ inv[j].pc = "returned"
    /\ runState.stoppedAt # Null
    /\ ~runState.running
    /\ runState.logs # <<>>
    /\ runState.logs[Len(runState.logs)] = "Missing API key."
\* C14: every perception request of a run in fast mode carries the options
\* {maxElements: 60, maxText: 0} and the run starts no screenshot capture;
\* every perception request of a run not in fast mode carries {maxElements:
\* 120, maxText: 4000} and the run starts one capture per request, in the
\* segment that sends the request; the model is called only when the
\* perception and the capture of the step have both settled.
C14_FastModeContract ==
  [][\A i \in Invocations :
       LET a == inv[i]
           b == inv'[i]
       IN /\ b.nPerceive > 0 =>
               b.options = IF b.fastMode THEN [maxElements |-> 60, maxText |-> 0]
                           ELSE [maxElements |-> 120, maxText |-> 4000]
          /\ b.nShots = IF b.fastMode THEN 0 ELSE b.nPerceive
          /\ b.fastMode => b.shot \in {"none", "null"}
          /\ b.nPerceive = a.nPerceive + 1 =>
               /\ b.pc = "perceive"
               /\ b.st = "pending"
               /\ b.shot = IF b.fastMode THEN "null" ELSE "pending"
               /\ a.shot # "pending"
          /\ b.nPerceive \notin {a.nPerceive, a.nPerceive + 1} => FALSE
          /\ b.nModel = a.nModel + 1 =>
               /\ a.pc = "perceive"
               /\ b.st = "ok"
               /\ b.shot \in {"png", "null", "rejected"}
               /\ a.st = "pending" \/ a.shot = "pending"
    ]_vars

\* A run not in fast mode in its second step, the perception settled and
\* the step's capture, the second of the run, still pending.
C14_Witness ==
  \E i \in Invocations :
    /\ ~inv[i].fastMode
    /\ inv[i].pc = "perceive"
    /\ inv[i].step = 2
    /\ inv[i].st = "ok"
    /\ inv[i].shot = "pending"
    /\ inv[i].nShots = 2
    /\ inv[i].nModel = 1
\* C15: a rejected screenshot capture logs the one line "Screenshot failed"
\* and never ends the step: if the perception has succeeded the model is
\* called in that segment, with no image, and if it is still pending the run
\* goes on waiting for it and calls the model, with no image, when it
\* succeeds.  The request to the model has an image exactly when the capture
\* gave one.  A run leaves the await of a perception for the model call or,
\* when the perception failed, for its end.
C15_ScreenshotFailureTolerated ==
  [][\A i \in Invocations :
       LET a == inv[i]
           b == inv'[i]
       IN /\ (a.shot = "pending" /\ b.shot = "rejected") =>
               /\ runState'.logs = Append(runState.logs, "Screenshot failed")
               /\ runState'.running = runState.running
               /\ b.exit = a.exit
               /\ b.step = a.step
               /\ (a.pc = "perceive" /\ a.st = "ok") =>
                    /\ b.pc = "model"
                    /\ b.nModel = a.nModel + 1
                    /\ ~b.image
               /\ (a.pc = "perceive" /\ a.st = "pending") =>
                    /\ b.pc = "perceive"
                    /\ b.st = "pending"
          /\ (a.shot = "rejected" /\ a.st = "pending" /\ b.st = "ok") =>
               /\ b.pc = "model"
               /\ b.nModel = a.nModel + 1
               /\ ~b.image
               /\ runState'.logs = runState.logs
          /\ b.pc = "model" => (b.image <=> b.shot = "png")
          /\ (a.pc = "perceive" /\ b.pc # "perceive") =>
               \/ b.pc = "model" /\ b.st = "ok"
               \/ b.pc = "returned" /\ b.exit = "perception" /\ b.st = "failed"
    ]_vars

\* The model was called in the second step of a run not in fast mode, with
\* no image, after that step's capture was rejected, the only one to fail.
C15_Witness ==
  \E i \in Invocations :
    /\ inv[i].pc = "model"
    /\ inv[i].step = 2
    /\ inv[i].shot = "rejected"
    /\ ~inv[i].image
    /\ ~inv[i].fastMode
    /\ Cardinality({k \in 1..Len(runState.logs) : runState.logs[k] = "Screenshot failed"}) = 1
RECURSIVE LogLines(_)

\* The lines of the AGENT_LOG messages among msgs, in order.
LogLines(msgs) ==
  IF msgs = <<>> THEN <<>>
  ELSE (IF Head(msgs).type = "AGENT_LOG" THEN <<Head(msgs).entry>> ELSE <<>>)
       \o LogLines(Tail(msgs))

\* C16: a step either empties the log, and then it is a clear-log command, or
\* leaves the log the status query returns as it was but for the lines pushed
\* in that step, appended in order, whether or not the log was cleared
\* before; the step that starts a run keeps every line and appends its own.
C16_LogAppendOnly ==
  [][LET old == StatusResponse(runState).logs
         new == StatusResponse(runState').logs
     IN /\ nClears' = nClears + 1 => new = <<>>
        /\ nClears' = nClears =>
             /\ new = old \/ new = old \o LogLines(emit')
             /\ emit' # emit => new = old \o LogLines(emit')
             /\ Len(new) >= Len(old)
        /\ (\E i \in Invocations : ~inv[i].ran /\ inv'[i].ran) =>
             new = Append(old, "Injecting content script...")
    ]_vars

\* Two runs have ended and the log holds the two lines that a run logged
\* after a clear-log command received while it awaited its action, and
\* nothing of what was logged before the command.
C16_Witness ==
  /\ nClears = 1
  /\ nStarts = 2
  /\ inv[1].pc = "returned"
  /\ inv[2].pc = "returned"
  /\ inv[2].exit = "budget"
  /\ runState.logs = <<"Result", "Agent stopped.">>
\* C17: a clear-log command empties the log and leaves running,
\* stopRequested, startedAt, stoppedAt and tabId as they were; a status query
\* changes nothing of the run state; neither moves any run: every invocation
\* stays at its await with the same step, the same action in flight and the
\* same actions left.
C17_ClearAndQueryFrame ==
  [][/\ nClears' = nClears + 1 =>
          /\ runState' = [runState EXCEPT !.logs = <<>>]
          /\ inv' = inv
          /\ now' = now
          /\ emit' = <<[type |-> "AGENT_STATUS", running |-> runState.running,
                        startedAt |-> runState.startedAt,
                        stoppedAt |-> runState.stoppedAt, logs |-> <<>>]>>
     /\ nQueries' = nQueries + 1 =>
          /\ runState' = runState
          /\ inv' = inv
          /\ now' = now
          /\ emit' = emit
    ]_vars

\* A clear-log command and a status query were received while the second of
\* two runs, on another tab than the first, awaits its action: the run state
\* is that run's, with an empty log.
C17_Witness ==
  /\ nClears = 1
  /\ nQueries = 1
  /\ inv[1].pc = "returned"
  /\ inv[2].pc = "action"
  /\ runState.running
  /\ runState.tabId = 2
  /\ runState.startedAt # Null
  /\ runState.logs = <<>>
\* C18: for an action that has a type, none of click, type, scroll, wait and
\* key, performAction answers {ok: false, error: "Unsupported action: <type>"}
\* and does nothing to the page.
C18_UnsupportedKind ==
  (/\ content.type = "PERFORM_ACTION"
   /\ content.request.type \notin {"", "click", "type", "scroll", "wait", "key"}) =>
    /\ content.response = Failure("Unsupported action", content.request.type)
    /\ content.effects = <<>>
\* The visible interactive elements of the document, by position: not
\* display: none, not visibility: hidden, opacity not 0, and a bounding box of
\* at least 4 x 4 pixels.
VisibleCandidates ==
  {i \in 1..Len(dom) :
     /\ \/ dom[i].tag \in {"a", "button", "input", "textarea", "select"}
        \/ dom[i].role = "button"
        \/ dom[i].contenteditable = "true"
     /\ dom[i].display # "none"
     /\ dom[i].visibility # "hidden"
     /\ dom[i].opacity # "0"
     /\ dom[i].rect.width >= 8
     /\ dom[i].rect.height >= 8}

\* C19: for options.maxElements from 10 to 500 the perceived state holds at
\* most maxElements elements, all of them visible, no element twice; they
\* are the first maxElements visible interactive elements of the document,
\* in ascending order of (rect.y, rect.x).
C19_PerceivedElements ==
  (/\ content.type = "COLLECT_STATE"
   /\ content.request.maxElements.isNumber
   /\ content.request.maxElements.twice >= 2 * 10
   /\ content.request.maxElements.twice <= 2 * 500) =>
    LET elements == content.response.elements
        maxElements == content.request.maxElements.twice \div 2
        nodes == {elements[k].node : k \in 1..Len(elements)}
    IN /\ Len(elements) <= maxElements
       /\ Cardinality(nodes) = Len(elements)
       /\ nodes \subseteq VisibleCandidates
       /\ \A i \in VisibleCandidates :
            i \in nodes <=>
              Cardinality({j \in VisibleCandidates : j < i}) < maxElements
       /\ \A k \in 1..Len(elements) - 1 :
            \/ elements[k].rect.y < elements[k + 1].rect.y
            \/ /\ elements[k].rect.y = elements[k + 1].rect.y
               /\ elements[k].rect.x <= elements[k + 1].rect.x

\* A perception with maxElements 10 of a document of more visible
\* candidates after an element that is not visible: 10 elements, not in
\* document order.
C19_Witness ==
  /\ content.type = "COLLECT_STATE"
  /\ content.request.maxElements = Num(2 * 10)
  /\ Len(content.response.elements) = 10
  /\ Cardinality(VisibleCandidates) > 10
  /\ 1 \notin VisibleCandidates
  /\ \E k \in 1..9 :
       content.response.elements[k].node > content.response.elements[k + 1].node
\* C20: every label of a perceived state is at most 160 characters long.
C20_LabelLength ==
  content.type = "COLLECT_STATE" =>
    \A k \in 1..Len(content.response.elements) :
      Length(content.response.elements[k].label) <= 160
\* The sources of the label of an element, in the order of the claim: the
\* aria-label, the text of the element aria-labelledby names, the placeholder,
\* the alt text and the element's own text.
LabelSources(d, element) ==
  LET target == {i \in 1..Len(d) : element.labelledby # "" /\ d[i].id = element.labelledby}
      first == CHOOSE i \in target : \A j \in target : i <= j
  IN <<element.aria,
       IF target = {} THEN NullText ELSE d[first].innerText,
       element.placeholder,
       element.alt,
       IF ~element.innerText.isNull /\ Length(element.innerText) > 0
       THEN element.innerText ELSE element.textContent>>

NonEmpty(s) == ~s.isNull /\ Length(s) > 0

\* C21: the label of every perceived element is its first source that is a
\* non-empty string, in the order aria-label, text of the aria-labelledby
\* target, placeholder, alt, own text, without the white space around it (the
\* own text cut to 160 characters), and the empty string when every source is
\* empty; so with an aria-label and a placeholder the label is the aria-label.
C21_LabelOrder ==
  content.type = "COLLECT_STATE" =>
    \A k \in 1..Len(content.response.elements) :
      LET e == content.response.elements[k]
          sources == LabelSources(dom, dom[e.node])
          nonEmpty == {n \in 1..5 : NonEmpty(sources[n])}
          source == CHOOSE n \in nonEmpty : \A m \in nonEmpty : n <= m
      IN /\ nonEmpty = {} => Length(e.label) = 0
         /\ nonEmpty # {} =>
              /\ e.label.word = sources[source].word
              /\ e.label.lead = 0 /\ e.label.trail = 0
              /\ e.label.len = IF source = 5 THEN Min(sources[source].len, MaxLabel)
                               ELSE sources[source].len
         /\ NonEmpty(dom[e.node].aria) /\ NonEmpty(dom[e.node].placeholder) =>
              e.label.word = dom[e.node].aria.word

\* C21 witness: a perceived element with the aria-label "send" and the
\* placeholder "hint", labelled "send".
C21_Witness ==
  /\ content.type = "COLLECT_STATE"
  /\ \E k \in 1..Len(content.response.elements) :
       LET e == content.response.elements[k]
       IN /\ dom[e.node].aria = Text("send", 0, 4, 0)
          /\ dom[e.node].placeholder = Text("hint", 0, 4, 0)
          /\ e.label = Text("send", 0, 4, 0)

\* C22: the selector of every perceived element has the first form its
\* attributes allow, in the order #id, [data-testid="..."] for a test-id
\* attribute, tag[name="..."], tag[aria-label="..."], structural path; so an
\* element with id and name gets #id, and one with only data-testid gets
\* [data-testid="..."] with its value.
C22_SelectorOrder ==
  content.type = "COLLECT_STATE" =>
    \A k \in 1..Len(content.response.elements) :
      LET e == content.response.elements[k]
          element == dom[e.node]
          hasId == element.id # ""
          hasTestId == \/ NonEmpty(element.data_testid)
                       \/ NonEmpty(element.data_test)
                       \/ NonEmpty(element.data_qa)
          hasName == NonEmpty(element.name)
          hasAria == NonEmpty(element.aria)
      IN /\ hasId => e.selector.form = "id" /\ e.selector.id = element.id
         /\ ~hasId /\ hasTestId =>
              /\ e.selector.form = "attr" /\ e.selector.attr = "data-testid"
              /\ e.selector.tag = ""
         /\ ~hasId /\ ~hasTestId /\ hasName =>
              /\ e.selector.form = "attr" /\ e.selector.attr = "name"
              /\ e.selector.tag = element.tag
         /\ ~hasId /\ ~hasTestId /\ ~hasName /\ hasAria =>
              /\ e.selector.form = "attr" /\ e.selector.attr = "aria-label"
              /\ e.selector.tag = element.tag
         /\ ~hasId /\ ~hasTestId /\ ~hasName /\ ~hasAria =>
              e.selector.form = "path" /\ Len(e.selector.path) > 0
         /\ /\ ~hasId /\ NonEmpty(element.data_testid) /\ ~hasName /\ ~hasAria
            /\ element.data_testid.marks = <<>>
            => e.selector.value = element.data_testid

\* C22 witness: a perceived state with an input of id "go" and name "q" whose
\* selector is #go, and a button of only data-testid "save" whose selector
\* is [data-testid="save"].
C22_Witness ==
  /\ content.type = "COLLECT_STATE"
  /\ \E k, l \in 1..Len(content.response.elements) :
       LET e == content.response.elements[k]
           f == content.response.elements[l]
       IN /\ dom[e.node].id = "go" /\ NonEmpty(dom[e.node].name)
          /\ e.selector = IdSelector("go")
          /\ dom[f.node].id = "" /\ dom[f.node].data_testid = Text("save", 0, 4, 0)
          /\ ~NonEmpty(dom[f.node].name) /\ ~NonEmpty(dom[f.node].aria)
          /\ f.selector = AttrSelector("", "data-testid", Text("save", 0, 4, 0))

\* C23: a click that carries the selector a perceived state of the document
\* gives for an element clicks that element.
C23_SelectorRoundTrip ==
  content.type = "PERFORM_ACTION" /\ content.request.type = "click"
    /\ content.request.selector # NoSelector /\ content.request.text.isNull =>
    \A options \in CollectOptions :
      LET elements == collectPageState(dom, options).elements
      IN \A k \in 1..Len(elements) :
           elements[k].selector = content.request.selector =>
             /\ content.response.ok
             /\ \E n \in 1..Len(content.effects) :
                  content.effects[n] = Effect("click", elements[k].node)

\* The page is executing an action of invocation i: the action was sent, its
\* round-trip timed out and the page has not answered it.
ActionExecuting(i) ==
  \E k \in 1..Len(inv[i].late) :
    inv[i].late[k].kind = "action" /\ inv[i].late[k].callback = "pending"

\* C24: no step of a run sends an action or a perception request to the page
\* while the page is executing an action the run sent before.
C24_OneActionInPage ==
  [][\A i \in Invocations :
       inv'[i].nDispatch > inv[i].nDispatch \/ inv'[i].nPerceive > inv[i].nPerceive
         => ~ActionExecuting(i)]_vars

\* The calls of sendToTab of invocation i that the model keeps.
Trips(i) == {inv[i].trip} \cup {inv[i].late[k] : k \in 1..Len(inv[i].late)}

SettledOnce(trip) ==
  /\ trip.settles <= 1
  /\ trip.callback = "arrived" \/ trip.timer = "fired" => trip.settles = 1
  /\ trip.settles = 1 =>
       \/ trip.result \in {"response", "transport"} /\ trip.timer = "cleared"
            /\ trip.callback = "arrived"
       \/ trip.result = "timeout" /\ trip.timer = "fired"

\* C25: a call of sendToTab settles once, as soon as sendMessage has called
\* back or the timer has fired, and never again: with the response or the
\* transport error when the callback came first (the timer is then cleared)
\* and with the timeout when the timer fired first; and the callback of a call
\* that timed out changes nothing but that it has arrived.
C25_SettlesOnce ==
  [][\A i \in Invocations :
       /\ \A trip \in Trips(i)' : SettledOnce(trip)
       /\ \A k \in 1..Len(inv[i].late) :
            inv[i].late[k].callback = "pending" /\ inv'[i].late[k].callback = "arrived"
              => /\ inv'[i] = [inv[i] EXCEPT !.late[k].callback = "arrived"]
                 /\ runState' = runState
                 /\ emit' = emit]_vars

\* C25 witness: an action round-trip has timed out, the loop has logged the
\* error and gone on, and the page's answer has arrived since.
C25_Witness ==
  \E i \in Invocations : \E k \in 1..Len(inv[i].late) :
    /\ inv[i].late[k].kind = "action"
    /\ inv[i].late[k].callback = "arrived"
    /\ inv[i].late[k].result = "timeout"
    /\ inv[i].late[k].settles = 1
    /\ inv[i].nOutcomes > 0

\* C26: a run that has received a stop command since its start sends no
\* perception request after it.
C26_StopAfterStart ==
  \A i \in Invocations :
    inv[i].stopAt # Null => inv[i].nPerceive = inv[i].stopAt

\* The background has no run in progress, every start command it received
\* was rejected as already running, refused for a missing API key, ended by
\* a failed injection or by the exit of the loop, and no command and no
\* status event is on its way between the open popup and the background.
Quiescent ==
  /\ env.popup
  /\ ~runState.running
  /\ \A i \in Invocations :
       inv[i].pc \in {"none", "busy", "nokey", "noinject", "returned"}
  /\ popup.inbox = <<>>
  /\ popup.outbox = <<>>

\* C27: when the background has no run in progress and every pushed event has
\* reached the open popup, the popup's state.running is false.
C27_PopupIndicator == Quiescent => ~popup.running

====
